---- MODULE Spec2Model ----
(***************************************************************************)
(* A model of the chunk dispatcher `squid` (src/kr2r/src/bin/squid.rs):    *)
(* main, process_chunk_file, read_chunk_header, process_batch and          *)
(* write_to_file.                                                          *)
(*                                                                         *)
(* Machine words (u32, u64, usize) are modelled by the set of their set    *)
(* bit positions: bit b of the word is 1 iff b is in the set.  Masking is  *)
(* intersection, or-ing is union, a shift moves the positions and a        *)
(* narrowing cast drops the positions beyond the width.  A byte is a       *)
(* number in 0..255 and a file is a sequence of bytes.                     *)
(***************************************************************************)
EXTENDS Integers, Sequences, FiniteSets, TLC

\* ------------------------------------------------------------------ bounds
\* chunk files discovered in the chunk directory
MaxChunks == 2
\* slot records in the bodies of all the chunk files of one run
MaxRecords == 2
\* pieces the worker pool divides one batch into
MaxWorkers == 2

\* ------------------------------------------------------------------ words
\* the word whose value is the small number n
Word(n) == {b \in 0..30 : (n \div (2^b)) % 2 = 1}

\* the value of a word that fits 31 bits
Nat31(w) ==
    LET RECURSIVE Sum(_)
        Sum(S) == IF S = {} THEN 0
                  ELSE LET b == CHOOSE x \in S : TRUE IN 2^b + Sum(S \ {b})
    IN Sum(w)

Fits31(w) == \A b \in w : b <= 30

\* numeric order of two words: the highest bit they differ in decides
WordLess(a, b) ==
    /\ a # b
    /\ LET D == (a \ b) \cup (b \ a)
           top == CHOOSE x \in D : \A y \in D : y <= x
       IN top \in b

\* v >> k
Shr(v, k) == {b - k : b \in {x \in v : x >= k}}

\* v << k in a word of `width` bits: the bits shifted out are lost
Shl(v, k, width) == {b + k : b \in {x \in v : x + k < width}}

\* `as u32`
AsU32(v) == {b \in v : b < 32}

\* `as u64` and `as usize` of a narrower or equal unsigned word: zero extension
AsU64(v) == {b \in v : b < 64}

\* byte i (0 = least significant) of a word
ByteOf(v, i) ==
    LET bit(k, w) == IF (8 * i + k) \in v THEN w ELSE 0
    IN bit(0, 1) + bit(1, 2) + bit(2, 4) + bit(3, 8)
       + bit(4, 16) + bit(5, 32) + bit(6, 64) + bit(7, 128)

\* the bits of a byte
BitsOfByte(x) == {k \in 0..7 : (x \div (2^k)) % 2 = 1}

\* u64::to_le_bytes
to_le_bytes(v) == [i \in 1..8 |-> ByteOf(v, i - 1)]

\* u64::from_le_bytes of 8 bytes
from_le_bytes(bytes) ==
    UNION {{8 * (i - 1) + k : k \in BitsOfByte(bytes[i])} : i \in 1..8}

\* ------------------------------------------------- compact_hash (not in src)
\* Compact::right: the value masked by value_mask
right(v, value_mask) == v \cap value_mask

\* Compact::left on a u64: the left payload, the low-order bits below the
\* taxon-id subfield, which is the high-order value_bits bits
left(v, value_bits) == {b \in v : b < 64 - value_bits}

\* u32::combined: a value from a left payload and a taxon id, the taxon id
\* in the high-order value_bits bits
combined(l, taxid, value_bits) == Shl(taxid, 32 - value_bits, 32) \cup AsU32(l)

\* the taxon-id subfield of a 32-bit value
taxid_of(v, value_bits) == Shr(AsU32(v), 32 - value_bits)

\* the left subfield of a 32-bit value
left_of(v, value_bits) == {b \in AsU32(v) : b < 32 - value_bits}

\* Slot::to_b: the slot's new value field
to_b(slot, high) == high

\* the value mask derived from value_bits: the taxon-id subfield of a u64
value_mask_of(value_bits) == (64 - value_bits)..63

\* ------------------------------------------------------------------ inputs
\* the numbers of hash-table files the runs find
HashFileCounts == 0..2

\* the values of the --batch-size argument
BatchSizes == 0..2

\* the record counts the chunk headers declare
DeclaredCounts == {1}

\* Slot<u64>: { idx: usize, value: u64 }, 16 bytes
slot_size == 16

\* the slot records the chunk bodies are made of: two with the key hash
\* file 0 holds, which name the same destination with different left
\* payloads, and one with the key the other hash files hold, which names a
\* lower destination
SlotChoices ==
    { [idx |-> Word(1), value |-> {61, 0}],
      [idx |-> Word(1), value |-> {61, 2}],
      [idx |-> Word(2), value |-> {60, 1}] }

\* a slot record as the chunk writer lays it out: key then value
SlotBytes(slot) == to_le_bytes(slot.idx) \o to_le_bytes(slot.value)

RECURSIVE Flatten(_)
Flatten(ss) == IF ss = <<>> THEN <<>> ELSE Head(ss) \o Flatten(Tail(ss))

\* the bodies of at most r whole records, with or without a trailing fragment
Bodies(r) ==
    LET whole == UNION {[1..n -> SlotChoices] : n \in 0..r}
        frag == {<<>>, to_le_bytes(Word(1))}
    IN {Flatten([i \in 1..Len(b) |-> SlotBytes(b[i])]) \o t : b \in whole, t \in frag}

\* the 16-byte chunk header
HeaderBytes(index, chunk_size) == to_le_bytes(index) \o to_le_bytes(chunk_size)

\* chunk files too short to hold a header
ShortFiles == {[i \in 1..n |-> 0] : n \in {0, 8, 15}}

\* the chunk files whose bodies hold at most r whole records, for a table
\* of n hash files: the partition index is one of the table's or the first
\* beyond them
ChunkFiles(r, n) ==
    ShortFiles \cup
    {HeaderBytes(Word(p), Word(c)) \o b : p \in 0..n, c \in DeclaredCounts, b \in Bodies(r)}

\* the chunk files of at most MaxRecords whole records, tabulated once by
\* table size
ChunkFilesOf == [n \in HashFileCounts |-> ChunkFiles(MaxRecords, n)]

\* whole records in the body of a chunk file
BodyRecords(f) == IF Len(f) < 16 THEN 0 ELSE (Len(f) - 16) \div slot_size

\* the table hash file f holds: key -> taxon id
HashFileTable(f) ==
    IF f = 0 THEN [k \in {Word(1)} |-> Word(7)] ELSE [k \in {Word(2)} |-> Word(5)]

\* value_bits, the width of the taxon-id subfield, as the hash configuration
\* of a table of n files states it
config_value_bits(n) == IF n % 2 = 0 THEN 8 ELSE 4

\* K2Compact::get_from_page: the taxon id stored under the slot's key in the
\* page's files, the first file first; the empty word (0) when none holds it
get_from_page(chtm, slot) ==
    LET holds == {i \in 1..Len(chtm.files) :
                     slot.idx \in DOMAIN HashFileTable(chtm.files[i])}
    IN IF holds = {} THEN {}
       ELSE LET i == CHOOSE x \in holds : \A y \in holds : x <= y
            IN HashFileTable(chtm.files[i])[slot.idx]

get_value_mask(chtm) == value_mask_of(chtm.value_bits)

get_value_bits(chtm) == chtm.value_bits

\* ------------------------------------------------------------------ state
VARIABLES
    pc,              \* where main is
    hash_files,      \* main: the number of hash files discovered
    batch_size,      \* args.batch_size
    chunk_files,     \* main: the number of chunk files discovered
    budget,          \* whole records the chunk files not yet opened may hold
    chunk_i,         \* main: the chunk file being processed (1-based), 0 before
    status,          \* how process_chunk_file ended for each chunk so far
    file,            \* process_chunk_file: the bytes of the open chunk file
    pos,             \* process_chunk_file: bytes of it the reader has consumed
    header,          \* process_chunk_file: <<>> or <<(page_index, page_size)>>
    chtm,            \* process_chunk_file: <<>> or <<the page loaded>>
    slots,           \* process_batch: the slots of the batch read
    parts,           \* process_batch: the worker pool's pieces of the batch
    result,          \* process_batch: file_index -> bytes, the grouped batch
    file_indices,    \* process_batch: the sorted keys still to write
    last_file_index, \* process_batch: <<>> (None) or <<file_index>>
    writer,          \* process_batch: <<>> (None) or <<[idx, buf]>>
    shards,          \* the shard files on disk: file_index -> bytes
    io_log,          \* the I/O calls made since the last read, that one first
    given,           \* <<>>, or <<the chunk file found at every path of the run>>
    packed           \* a value field put together and taken apart, apart from a run

vars == <<pc, hash_files, batch_size, chunk_files, budget, chunk_i, status,
          file, pos, header, chtm, slots, parts, result, file_indices,
          last_file_index, writer, shards, io_log, given, packed>>

main_vars == <<hash_files, batch_size, chunk_files>>
chunk_vars == <<file, pos, header, chtm>>
batch_vars == <<slots, parts, result, file_indices>>
writer_vars == <<last_file_index, writer, shards>>
aside_vars == <<given, packed>>

\* the empty map
EmptyMap == [k \in {} |-> <<>>]

\* one entry of io_log
Event(op, idx, bytes) == [op |-> op, idx |-> idx, bytes |-> bytes]

Init ==
    /\ pc = "loop"
    /\ hash_files \in HashFileCounts
    /\ batch_size \in BatchSizes
    /\ chunk_files \in 0..MaxChunks
    /\ budget = MaxRecords
    /\ chunk_i = 0
    /\ status = <<>>
    /\ file = <<>>
    /\ pos = 0
    /\ header = <<>>
    /\ chtm = <<>>
    /\ slots = <<>>
    /\ parts = <<>>
    /\ result = EmptyMap
    /\ file_indices = <<>>
    /\ last_file_index = <<>>
    /\ writer = <<>>
    /\ shards = EmptyMap
    /\ io_log = <<>>
    /\ given = <<>>
    /\ packed = <<>>

\* ------------------------------------------------------------------- main
\* a variant of main that notes a chunk's outcome and goes on to the next
\* chunk whatever it was; C8 excludes it
EndChunkGoOn(outcome) ==
    /\ status' = Append(status, outcome)
    /\ pc' = "loop"

\* how a call of process_chunk_file ends: Ok(()), Err(e) or a panic.  main
\* returns the error at once (`?`, line 231); a panic ends the process.
EndChunk(outcome) ==
    /\ status' = Append(status, outcome)
    /\ pc' = CASE outcome = "done" -> "loop"
               [] outcome = "err" -> "exit_err"
               [] OTHER -> "panic"

\* the for loop of main takes the next chunk file (lines 229-231)
NextChunk ==
    /\ pc = "loop"
    /\ chunk_i < chunk_files
    /\ chunk_i' = chunk_i + 1
    /\ pc' = "open"
    /\ file' = <<>>
    /\ pos' = 0
    /\ header' = <<>>
    /\ chtm' = <<>>
    /\ slots' = <<>>
    /\ parts' = <<>>
    /\ result' = EmptyMap
    /\ file_indices' = <<>>
    /\ last_file_index' = <<>>
    /\ writer' = <<>>
    /\ io_log' = <<>>
    /\ UNCHANGED <<main_vars, aside_vars, budget, status, shards>>

\* the for loop of main is over: Ok(()) (lines 233-238)
MainReturn ==
    /\ pc = "loop"
    /\ chunk_i = chunk_files
    /\ pc' = "exit_ok"
    /\ UNCHANGED <<main_vars, aside_vars, budget, chunk_i, status, chunk_vars, batch_vars,
                   writer_vars, io_log>>

\* ----------------------------------------------------- process_chunk_file
\* File::open(chunk_file)? (lines 182-183)
OpenChunk ==
    /\ pc = "open"
    /\ \/ \E f \in ChunkFilesOf[hash_files] :
            /\ BodyRecords(f) <= budget
            /\ file' = f
            /\ budget' = budget - BodyRecords(f)
            /\ pc' = "header"
            /\ io_log' = Append(io_log, Event("open_chunk", {}, <<>>))
            /\ UNCHANGED status
       \/ /\ EndChunk("err")
          /\ io_log' = Append(io_log, Event("open_chunk_err", {}, <<>>))
          /\ UNCHANGED <<file, budget>>
    /\ UNCHANGED <<main_vars, aside_vars, chunk_i, pos, header, chtm, batch_vars, writer_vars>>

\* a variant that takes the two header fields as big-endian; C7 excludes it
read_chunk_header_be(bytes) ==
    [page_index |-> AsU64(from_le_bytes([i \in 1..8 |-> bytes[9 - i]])),
     page_size |-> AsU64(from_le_bytes([i \in 1..8 |-> bytes[17 - i]]))]

\* read_chunk_header (lines 40-57): read_exact of 16 bytes, then two
\* little-endian u64 cast to usize
read_chunk_header(bytes) ==
    [page_index |-> AsU64(from_le_bytes(SubSeq(bytes, 1, 8))),
     page_size |-> AsU64(from_le_bytes(SubSeq(bytes, 9, 16)))]

\* whether read_exact can fill the 16-byte buffer from what the reader holds
header_available(f, p) == Len(f) - p >= 16

\* let (page_index, page_size) = read_chunk_header(&mut reader)? (line 185)
ReadChunkHeader ==
    /\ pc = "header"
    /\ \/ /\ header_available(file, pos)
          /\ header' = <<read_chunk_header(SubSeq(file, pos + 1, pos + 16))>>
          /\ pos' = pos + 16
          /\ pc' = "page"
          /\ io_log' = Append(io_log, Event("header", {}, SubSeq(file, pos + 1, pos + 16)))
          /\ UNCHANGED status
       \/ /\ EndChunk("err")
          /\ io_log' = Append(io_log, Event("header_err", {}, <<>>))
          /\ UNCHANGED <<header, pos>>
    /\ UNCHANGED <<main_vars, aside_vars, budget, chunk_i, file, chtm, batch_vars, writer_vars>>

\* hash_files[i] is in bounds
InBounds(index, len) == Fits31(index) /\ Nat31(index) < len

\* a variant that pairs partition p with p + 1 without wrapping to 0; C9
\* excludes it
PageFilesNoWrap(page_index, n) ==
    IF n <= 1 THEN <<0>> ELSE <<Nat31(page_index), Nat31(page_index) + 1>>

\* the files of the page process_chunk_file loads (lines 189-203)
PageFiles(page_index, n) ==
    IF n <= 1 THEN <<0>>
    ELSE <<Nat31(page_index), (Nat31(page_index) + 1) % n>>

\* whether the indexing of hash_files panics (lines 190, 201-202)
PagePanics(page_index, n) ==
    IF n <= 1 THEN n = 0 ELSE ~InBounds(page_index, n)

\* the page is loaded and process_batch begins (lines 189-209, 99-105)
LoadPage ==
    /\ pc = "page"
    /\ \/ \* HashConfig::from(..)? fails (line 197)
          /\ hash_files > 1
          /\ EndChunk("err")
          /\ io_log' = Append(io_log, Event("config_err", {}, <<>>))
          /\ UNCHANGED chtm
       \/ /\ PagePanics(header[1].page_index, hash_files)
          /\ EndChunk("panic")
          /\ io_log' = Append(io_log, Event("index_panic", {}, <<>>))
          /\ UNCHANGED chtm
       \/ \* CHTable::from(..)? or CHPage::from(..)? fails
          /\ ~PagePanics(header[1].page_index, hash_files)
          /\ EndChunk("err")
          /\ io_log' = Append(io_log, Event("load_err", {}, <<>>))
          /\ UNCHANGED chtm
       \/ /\ ~PagePanics(header[1].page_index, hash_files)
          /\ chtm' = <<[kind |-> IF hash_files <= 1 THEN "CHTable" ELSE "CHPage",
                        files |-> PageFiles(header[1].page_index, hash_files),
                        value_bits |-> config_value_bits(hash_files)]>>
          /\ pc' = "read"
          /\ io_log' = Append(io_log, Event("load", {}, PageFiles(header[1].page_index, hash_files)))
          /\ UNCHANGED status
    /\ UNCHANGED <<main_vars, aside_vars, budget, chunk_i, file, pos, header, batch_vars, writer_vars>>

\* ---------------------------------------------------------- process_batch
\* a variant that takes one slot from a batch however many it holds; C20
\* excludes it
DecodeSlotsFirst(bytes, slots_in_batch) ==
    [i \in 1..(IF slots_in_batch > 1 THEN 1 ELSE slots_in_batch) |->
        [idx |-> from_le_bytes(SubSeq(bytes, slot_size * (i - 1) + 1, slot_size * (i - 1) + 8)),
         value |-> from_le_bytes(SubSeq(bytes, slot_size * (i - 1) + 9, slot_size * i))]]

\* the batch buffer read as slots_in_batch slots (lines 113-117): the bytes
\* are taken as they lie, on a little-endian target
DecodeSlots(bytes, slots_in_batch) ==
    [i \in 1..slots_in_batch |->
        [idx |-> from_le_bytes(SubSeq(bytes, slot_size * (i - 1) + 1, slot_size * (i - 1) + 8)),
         value |-> from_le_bytes(SubSeq(bytes, slot_size * (i - 1) + 9, slot_size * i))]]

\* the byte counts reader.read may return for a buffer of `len` bytes with
\* `avail` bytes left in the file: all it can give or, a short read, less
ReadCounts(len, avail) ==
    LET most == IF len < avail THEN len ELSE avail
    IN {n \in 1..most : n = most \/ n % 8 = 0}

\* a variant in which the reader gives no byte beyond the records the
\* header declares; C19 excludes it
body_left_declared(f, p, hdr) ==
    LET declared_end == 16 + slot_size * Nat31(hdr.page_size)
        upto == IF declared_end < Len(f) THEN declared_end ELSE Len(f)
    IN IF upto < p THEN 0 ELSE upto - p

\* the bytes the reader can still give: all of the file after what has been
\* consumed; the header does not enter into it (lines 107-110)
body_left(f, p, hdr) == Len(f) - p

\* while let Ok(bytes_read) = reader.read(&mut batch_buffer) (lines 107-117)
ReadBatch ==
    /\ pc = "read"
    /\ \/ \* Ok(0): the buffer is empty or the file is at its end; break
          /\ ReadCounts(slot_size * batch_size, body_left(file, pos, header[1])) = {}
          /\ pc' = "drain"
          /\ io_log' = <<Event("eof", {}, <<>>)>>
          /\ UNCHANGED <<pos, slots>>
       \/ \* Ok(bytes_read)
          \E bytes_read \in ReadCounts(slot_size * batch_size, body_left(file, pos, header[1])) :
            /\ slots' = DecodeSlots(SubSeq(file, pos + 1, pos + bytes_read),
                                    bytes_read \div slot_size)
            /\ pos' = pos + bytes_read
            /\ pc' = "par"
            /\ io_log' = <<Event("read", {}, SubSeq(file, pos + 1, pos + bytes_read))>>
       \/ \* Err(_): the pattern does not match and the loop ends
          /\ pc' = "drain"
          /\ io_log' = <<Event("read_err", {}, <<>>)>>
          /\ UNCHANGED <<pos, slots>>
    /\ UNCHANGED <<main_vars, aside_vars, budget, chunk_i, status, file, header, chtm,
                   parts, result, file_indices, writer_vars>>

\* a variant that keeps every slot, whatever its lookup returns; C3
\* excludes it
taxid_any(taxid) == TRUE

\* taxid > 0 (line 124)
taxid_positive(taxid) == taxid # {}

\* the destination of a slot (line 125)
file_index_of(slot, value_mask) == Shr(right(slot.value, value_mask), 32)

\* a variant that writes the slot's value as it was read, the taxon id not
\* combined into it; C4 excludes it
value_bytes_as_read(slot, taxid, value_bits) == to_le_bytes(slot.value)

\* a variant that writes the taxon id alone, the left payload dropped; C15
\* excludes it
value_bytes_taxid_only(slot, taxid, value_bits) ==
    to_le_bytes(to_b(slot, AsU64(combined({}, taxid, value_bits))))

\* the bytes written for a slot resolved to taxid (lines 126-129)
value_bytes_of(slot, taxid, value_bits) ==
    LET l == AsU32(left(slot.value, value_bits))
        high == AsU64(combined(l, taxid, value_bits))
        value == to_b(slot, high)
    IN to_le_bytes(value)

\* the filter_map closure (lines 121-134): <<>> is None, <<x>> is Some(x)
filter_map(page, slot) ==
    LET taxid == get_from_page(page, slot)
    IN IF taxid_positive(taxid)
       THEN <<[file_index |-> file_index_of(slot, get_value_mask(page)),
               value_bytes |-> value_bytes_of(slot, taxid, get_value_bits(page))]>>
       ELSE <<>>

\* acc.entry(k).or_insert_with(Vec::new) followed by extend or append of v
Extend(acc, k, v) ==
    [x \in DOMAIN acc \cup {k} |->
        IF x = k THEN (IF k \in DOMAIN acc THEN acc[k] ELSE <<>>) \o v ELSE acc[x]]

\* the fold closure (lines 137-142)
fold_op(acc, item) == Extend(acc, item.file_index, item.value_bytes)

\* a variant of the reduce closure that inserts h's entries over acc's
\* instead of appending them; C2 excludes it
reduce_insert(acc, h) ==
    [x \in DOMAIN acc \cup DOMAIN h |-> IF x \in DOMAIN h THEN h[x] ELSE acc[x]]

\* the reduce closure (lines 146-151): every entry of h is appended to acc
reduce_op(acc, h) ==
    [x \in DOMAIN acc \cup DOMAIN h |->
        (IF x \in DOMAIN acc THEN acc[x] ELSE <<>>)
        \o (IF x \in DOMAIN h THEN h[x] ELSE <<>>)]

\* one worker's fold of its piece of the batch, in the piece's order
RECURSIVE FoldPiece(_, _, _)
FoldPiece(page, acc, piece) ==
    IF piece = <<>> THEN acc
    ELSE LET item == filter_map(page, Head(piece))
         IN FoldPiece(page,
                      IF item = <<>> THEN acc ELSE fold_op(acc, item[1]),
                      Tail(piece))

\* the ways the pool divides a batch into at most MaxWorkers contiguous
\* pieces: the cut positions
Cuts(n) == {C \in SUBSET (1..(n - 1)) : Cardinality(C) < MaxWorkers}

\* the pieces of s cut after the positions of C
Pieces(s, C) ==
    LET starts == {0} \cup C
        endOf(a) == IF \E c \in C : c > a
                    THEN CHOOSE c \in C : c > a /\ \A e \in C : e > a => c <= e
                    ELSE Len(s)
        RECURSIVE From(_)
        From(a) == <<SubSeq(s, a + 1, endOf(a))>>
                   \o (IF endOf(a) = Len(s) THEN <<>> ELSE From(endOf(a)))
    IN From(0)

\* into_par_iter (line 120): the batch is divided among the workers
ParSplit ==
    /\ pc = "par"
    /\ \E C \in Cuts(Len(slots)) :
          parts' = [i \in 1..Len(Pieces(slots, C)) |->
                       [todo |-> Pieces(slots, C)[i], acc |-> EmptyMap, done |-> FALSE]]
    /\ pc' = "fold"
    /\ UNCHANGED <<main_vars, aside_vars, budget, chunk_i, status, chunk_vars, slots, result,
                   file_indices, writer_vars, io_log>>

\* a worker looks up and groups its piece (lines 121-143)
Fold(w) ==
    /\ pc = "fold"
    /\ w \in 1..Len(parts)
    /\ ~parts[w].done
    /\ parts' = [parts EXCEPT ![w] =
                    [todo |-> <<>>,
                     acc |-> FoldPiece(chtm[1], EmptyMap, parts[w].todo),
                     done |-> TRUE]]
    /\ UNCHANGED <<pc, main_vars, aside_vars, budget, chunk_i, status, chunk_vars, slots, result,
                   file_indices, writer_vars, io_log>>

\* s without its j-th element
Remove(s, j) == [i \in 1..(Len(s) - 1) |-> IF i < j THEN s[i] ELSE s[i + 1]]

\* two finished partial maps are merged (lines 144-152)
Reduce(i, j) ==
    /\ pc = "fold"
    /\ i \in 1..Len(parts) /\ j \in 1..Len(parts) /\ i # j
    /\ parts[i].done /\ parts[j].done
    /\ parts' = Remove([parts EXCEPT ![i].acc = reduce_op(parts[i].acc, parts[j].acc)], j)
    /\ UNCHANGED <<pc, main_vars, aside_vars, budget, chunk_i, status, chunk_vars, slots, result,
                   file_indices, writer_vars, io_log>>

\* a variant that leaves the keys in descending order; C1 excludes it
RECURSIVE sort_descending(_)
sort_descending(keys) ==
    IF keys = {} THEN <<>>
    ELSE LET most == CHOOSE k \in keys : \A x \in keys \ {k} : WordLess(x, k)
         IN <<most>> \o sort_descending(keys \ {most})

\* the keys in ascending order (lines 154-155)
RECURSIVE sort_unstable(_)
sort_unstable(keys) ==
    IF keys = {} THEN <<>>
    ELSE LET least == CHOOSE k \in keys : \A x \in keys \ {k} : WordLess(k, x)
         IN <<least>> \o sort_unstable(keys \ {least})

\* a variant that takes the first worker's map as the result as soon as that
\* worker is done, the others still at work; C17 excludes it
CollectEarly ==
    /\ pc = "fold"
    /\ parts # <<>> /\ parts[1].done
    /\ result' = parts[1].acc
    /\ file_indices' = sort_unstable(DOMAIN parts[1].acc)
    /\ parts' = Tail(parts)
    /\ pc' = IF DOMAIN parts[1].acc = {} THEN "read" ELSE "write"
    /\ UNCHANGED <<main_vars, aside_vars, budget, chunk_i, status, chunk_vars, slots,
                   writer_vars, io_log>>

\* the map is collected and its keys sorted (lines 119, 154-155)
Collect ==
    /\ pc = "fold"
    /\ Len(parts) = 1 /\ parts[1].done
    /\ result' = parts[1].acc
    /\ file_indices' = sort_unstable(DOMAIN parts[1].acc)
    /\ parts' = <<>>
    /\ pc' = IF DOMAIN parts[1].acc = {} THEN "read" ELSE "write"
    /\ UNCHANGED <<main_vars, aside_vars, budget, chunk_i, status, chunk_vars, slots,
                   writer_vars, io_log>>

\* ---------------------------------------------------------- write_to_file
\* a variant whose open truncates the shard; C14 excludes it
DiskTruncated(sh, idx, data) ==
    [x \in DOMAIN sh \cup {idx} |-> IF x = idx THEN data ELSE sh[x]]

\* a variant that leaves a shard as it is when it already ends with the
\* data; C12 excludes it
DiskOnce(sh, idx, data) ==
    [x \in DOMAIN sh \cup {idx} |->
        IF x # idx THEN sh[x]
        ELSE IF idx \notin DOMAIN sh THEN data
        ELSE IF Len(data) <= Len(sh[idx])
                /\ SubSeq(sh[idx], Len(sh[idx]) - Len(data) + 1, Len(sh[idx])) = data
             THEN sh[idx]
             ELSE sh[idx] \o data]

\* the shard files after `data` is appended to shard idx, which is created
\* when it does not exist (OpenOptions create + append, lines 73-76)
Disk(sh, idx, data) ==
    [x \in DOMAIN sh \cup {idx} |->
        IF x = idx THEN (IF idx \in DOMAIN sh THEN sh[idx] ELSE <<>>) \o data ELSE sh[x]]

\* the first k 8-byte units of buf
Prefix(buf, k) == SubSeq(buf, 1, IF 8 * k < Len(buf) THEN 8 * k ELSE Len(buf))

\* what the file system answers to one call: whether the flush of a
\* non-empty buffer and the open succeed, whether write_all keeps the bytes
\* in the BufWriter's buffer, writes buffer and bytes through, or fails, and
\* how much reaches the disk before a failure
IoChoices ==
    [flush : {"ok", "fail"}, open : {"ok", "fail"},
     write : {"buffer", "spill", "fail"}, k : 0..1]

\* a variant that opens the shard on every call, whether or not it is the
\* one already open; C11 excludes it
always_open(lfi, file_index) == TRUE

\* a variant that never opens a shard; C18 excludes it
never_open(lfi, file_index) == FALSE

\* last_file_index.is_none() || last_file_index.unwrap() != file_index
\* (line 66)
needs_open(lfi, file_index) == lfi = <<>> \/ lfi[1] # file_index

\* write_to_file (lines 59-87).  The result holds Ok/Err, the two variables
\* the caller lent, the shard files, and the calls made on them.  A BufWriter
\* dropped on the way out of a failed call writes what it can of its buffer.
write_to_file(file_index, bytes, lfi, wr, sh, io) ==
    LET reopen == needs_open(lfi, file_index)
        taken == reopen /\ wr # <<>>
        flush_fails == taken /\ wr[1].buf # <<>> /\ io.flush = "fail"
        open_fails == reopen /\ ~flush_fails /\ io.open = "fail"
        sh1 == IF taken
               THEN Disk(sh, wr[1].idx,
                         IF flush_fails THEN Prefix(wr[1].buf, io.k) ELSE wr[1].buf)
               ELSE sh
        ev1 == IF taken
               THEN <<Event(IF flush_fails THEN "flush_err" ELSE "flush", wr[1].idx, wr[1].buf)>>
               ELSE <<>>
        lfi2 == IF reopen THEN <<file_index>> ELSE lfi
        wr2 == IF reopen THEN <<[idx |-> file_index, buf |-> <<>>]>> ELSE wr
        sh2 == IF reopen THEN Disk(sh1, file_index, <<>>) ELSE sh1
        ev2 == ev1 \o (IF reopen THEN <<Event("open", file_index, <<>>)>> ELSE <<>>)
    IN IF flush_fails
       THEN [ok |-> FALSE, last_file_index |-> lfi, writer |-> <<>>,
             shards |-> sh1, events |-> ev1]
       ELSE IF open_fails
       THEN [ok |-> FALSE, last_file_index |-> lfi, writer |-> <<>>,
             shards |-> sh1, events |-> ev1 \o <<Event("open_err", file_index, <<>>)>>]
       ELSE IF wr2 = <<>>
       THEN \* no writer: the guard of line 82 skips the write
            [ok |-> TRUE, last_file_index |-> lfi2, writer |-> wr2,
             shards |-> sh2, events |-> ev2]
       ELSE IF io.write = "buffer"
       THEN [ok |-> TRUE, last_file_index |-> lfi2,
             writer |-> <<[idx |-> wr2[1].idx, buf |-> wr2[1].buf \o bytes]>>,
             shards |-> sh2, events |-> ev2 \o <<Event("write", wr2[1].idx, bytes)>>]
       ELSE IF io.write = "spill"
       THEN [ok |-> TRUE, last_file_index |-> lfi2,
             writer |-> <<[idx |-> wr2[1].idx, buf |-> <<>>]>>,
             shards |-> Disk(sh2, wr2[1].idx, wr2[1].buf \o bytes),
             events |-> ev2 \o <<Event("write", wr2[1].idx, bytes)>>]
       ELSE [ok |-> FALSE, last_file_index |-> lfi2, writer |-> <<>>,
             shards |-> Disk(sh2, wr2[1].idx, Prefix(wr2[1].buf \o bytes, io.k)),
             events |-> ev2 \o <<Event("write_err", wr2[1].idx, bytes)>>]

\* a variant in which the result of write_to_file is dropped and the loop
\* goes on; C6 excludes it
never_propagates(ret) == FALSE

\* whether process_batch goes on after a call of write_to_file: `?` returns
\* the error at once (line 165)
propagates(ret) == ~ret.ok

\* one turn of the loop over file_indices (lines 157-167)
WriteToFile ==
    /\ pc = "write"
    /\ file_indices # <<>>
    /\ \E io \in IoChoices :
          LET file_index == Head(file_indices)
              ret == write_to_file(file_index, result[file_index],
                                   last_file_index, writer, shards, io)
          IN /\ last_file_index' = ret.last_file_index
             /\ writer' = ret.writer
             /\ shards' = ret.shards
             /\ io_log' = io_log \o ret.events
             /\ IF propagates(ret)
                THEN /\ EndChunk("err")
                     /\ UNCHANGED file_indices
                ELSE /\ file_indices' = Tail(file_indices)
                     /\ pc' = IF Tail(file_indices) = <<>> THEN "read" ELSE "write"
                     /\ UNCHANGED status
    /\ UNCHANGED <<main_vars, aside_vars, budget, chunk_i, chunk_vars, slots, parts, result>>

\* a variant that returns Ok(()) when the stream ends without flushing the
\* handle still open; C16 excludes it
FinalFlushSkipped ==
    /\ pc = "drain"
    /\ EndChunk("done")
    /\ UNCHANGED <<main_vars, aside_vars, budget, chunk_i, chunk_vars, batch_vars,
                   writer_vars, io_log>>

\* the last handle is flushed and process_batch returns (lines 170-174)
FinalFlush ==
    /\ pc = "drain"
    /\ \E io \in {c \in IoChoices : c.open = "ok" /\ c.write = "buffer"} :
          LET fails == writer # <<>> /\ writer[1].buf # <<>> /\ io.flush = "fail"
          IN /\ shards' = IF writer = <<>> THEN shards
                          ELSE Disk(shards, writer[1].idx,
                                    IF fails THEN Prefix(writer[1].buf, io.k)
                                    ELSE writer[1].buf)
             /\ io_log' = IF writer = <<>> THEN io_log
                          ELSE Append(io_log,
                                      Event(IF fails THEN "flush_err" ELSE "flush",
                                            writer[1].idx, writer[1].buf))
             /\ EndChunk(IF fails THEN "err" ELSE "done")
    /\ writer' = <<>>
    /\ UNCHANGED <<main_vars, aside_vars, budget, chunk_i, chunk_vars, batch_vars, last_file_index>>

\* ---------------------------------------------------------- specification
Next ==
    \/ NextChunk
    \/ MainReturn
    \/ OpenChunk
    \/ ReadChunkHeader
    \/ LoadPage
    \/ ReadBatch
    \/ ParSplit
    \/ \E w \in 1..MaxWorkers : Fold(w)
    \/ \E i, j \in 1..MaxWorkers : Reduce(i, j)
    \/ Collect
    \/ WriteToFile
    \/ FinalFlush

Spec == Init /\ [][Next]_vars

\* the process keeps running: main's thread and the pool's workers take
\* their next step whenever one is possible
FairSpec == Spec /\ WF_vars(Next)

\* ------------------------------------------------- the repack step alone
\* the widths of the taxon-id subfield a hash configuration may state
ValueBitsChoices == {config_value_bits(n) : n \in HashFileCounts}

\* the value fields the step is tried on: a left payload that fits the
\* bits below the taxon-id subfield of the 32-bit value that is written,
\* under whatever the taxon-id subfield of the query slot held
PackedValues(value_bits) ==
    {l \cup old : l \in SUBSET {0, 1, 31 - value_bits},
                  old \in {{}, {63}, {64 - value_bits, 63}}}

\* the taxon ids that fit value_bits bits, 0 among them
PackedTaxids(value_bits) == SUBSET {0, 1, value_bits - 1}

\* lines 125-129 taken by themselves: a slot, the taxon id found for it and
\* the value_bits of the page are fixed; nothing is read or written
InitPacking ==
    /\ pc = "pack"
    /\ packed \in {<<[value_bits |-> vb, slot |-> [idx |-> Word(1), value |-> v],
                      taxid |-> t, value_bytes |-> <<>>, out |-> <<>>]>> :
                      vb \in ValueBitsChoices,
                      v \in UNION {PackedValues(b) : b \in ValueBitsChoices},
                      t \in UNION {PackedTaxids(b) : b \in ValueBitsChoices}}
    /\ packed[1].slot.value \in PackedValues(packed[1].value_bits)
    /\ packed[1].taxid \in PackedTaxids(packed[1].value_bits)
    /\ hash_files = 1
    /\ batch_size = 1
    /\ chunk_files = 0
    /\ budget = 0
    /\ chunk_i = 0
    /\ status = <<>>
    /\ file = <<>>
    /\ pos = 0
    /\ header = <<>>
    /\ chtm = <<>>
    /\ slots = <<>>
    /\ parts = <<>>
    /\ result = EmptyMap
    /\ file_indices = <<>>
    /\ last_file_index = <<>>
    /\ writer = <<>>
    /\ shards = EmptyMap
    /\ io_log = <<>>
    /\ given = <<>>

\* the value is repacked and laid out as bytes (lines 126-129)
Repack ==
    /\ pc = "pack"
    /\ packed' = <<[packed[1] EXCEPT
                      !.value_bytes = value_bytes_of(packed[1].slot, packed[1].taxid,
                                                     packed[1].value_bits)]>>
    /\ pc' = "packed"
    /\ UNCHANGED <<main_vars, given, budget, chunk_i, status, chunk_vars, batch_vars,
                   writer_vars, io_log>>

\* a reader of the shard takes the two subfields out of the value it finds
Unpack ==
    /\ pc = "packed"
    /\ packed' = <<[packed[1] EXCEPT
                      !.out = <<[taxid |-> taxid_of(from_le_bytes(packed[1].value_bytes),
                                                    packed[1].value_bits),
                                 left |-> left_of(from_le_bytes(packed[1].value_bytes),
                                                  packed[1].value_bits)]>>]>>
    /\ pc' = "unpacked"
    /\ UNCHANGED <<main_vars, given, budget, chunk_i, status, chunk_vars, batch_vars,
                   writer_vars, io_log>>

NextPacking == Repack \/ Unpack

SpecPacking == InitPacking /\ [][NextPacking]_vars

\* ------------------------------------------------ the same chunk, run again
\* the calls that fail only when the file system makes them fail
FailOps ==
    {"open_chunk_err", "header_err", "config_err", "load_err", "read_err",
     "flush_err", "open_err", "write_err"}

\* a run in which every path of chunk_files names one and the same chunk
\* file, which holds a header: the file is fixed before the run
InitSame ==
    /\ pc = "loop"
    /\ hash_files \in HashFileCounts
    /\ batch_size \in BatchSizes
    /\ chunk_files \in 1..MaxChunks
    /\ given \in {<<f>> : f \in ChunkFilesOf[hash_files] \ ShortFiles}
    /\ budget = MaxChunks * MaxRecords
    /\ chunk_i = 0
    /\ status = <<>>
    /\ file = <<>>
    /\ pos = 0
    /\ header = <<>>
    /\ chtm = <<>>
    /\ slots = <<>>
    /\ parts = <<>>
    /\ result = EmptyMap
    /\ file_indices = <<>>
    /\ last_file_index = <<>>
    /\ writer = <<>>
    /\ shards = EmptyMap
    /\ io_log = <<>>
    /\ packed = <<>>

\* what surrounds such a run: no call fails, File::open finds the given
\* file, every read fills the buffer or takes all that is left, and the
\* pool joins neighbouring pieces, the left one first, as rayon's reduce
\* does
SameEnv ==
    /\ \A k \in DOMAIN io_log' : io_log'[k].op \notin FailOps
    /\ pc = "open" => file' = given[1]
    /\ (pc = "read" /\ pc' = "par") =>
          pos' - pos = (IF slot_size * batch_size < Len(file) - pos
                        THEN slot_size * batch_size ELSE Len(file) - pos)
    /\ (pc = "fold" /\ pc' = "fold" /\ Len(parts') < Len(parts)) =>
          \E i \in 1..(Len(parts) - 1) :
              parts' = Remove([parts EXCEPT ![i].acc =
                                  reduce_op(parts[i].acc, parts[i + 1].acc)], i + 1)

NextSame == Next /\ SameEnv

SpecSame == InitSame /\ [][NextSame]_vars

\* ------------------------------------------------- what the claims speak of
\* a byte buffer cut into 8-byte records
Records(bytes) == [i \in 1..(Len(bytes) \div 8) |-> SubSeq(bytes, 8 * (i - 1) + 1, 8 * i)]

\* how often r occurs in the sequence seq
Count(seq, r) == Cardinality({i \in DOMAIN seq : seq[i] = r})

\* the successful appends issued since the last read, in the order issued
BatchWrites == SelectSeq(io_log, LAMBDA e : e.op = "write")

\* the current batch has been read, looked up, merged and collected: result
\* is the grouping of slots
Grouped == pc \in {"write", "read"} /\ io_log # <<>> /\ io_log[1].op = "read"

\* the write loop of the current batch has run to its end
BatchWritten == Grouped /\ pc = "read"

\* the slots of the batch whose lookup returns a taxon id other than 0
KeptSlots == {i \in 1..Len(slots) : get_from_page(chtm[1], slots[i]) # {}}

\* the destination and the bytes of slot i of the batch
DestOf(i) == file_index_of(slots[i], get_value_mask(chtm[1]))
BytesOf(i) ==
    value_bytes_of(slots[i], get_from_page(chtm[1], slots[i]), get_value_bits(chtm[1]))

RECURSIVE SumLen(_)
SumLen(ss) == IF ss = <<>> THEN 0 ELSE Len(Head(ss).bytes) + SumLen(Tail(ss))

\* ------------------------------------------------------------------ claims
\* C1: the appends issued for a batch are in strictly ascending destination
\* order, whatever the division among workers; when the write loop of the
\* batch has ended, every destination with a kept record has received
\* exactly one append, and that append carries all the batch's records for
\* it (its length is 8 times their number and it holds each of them as often
\* as the batch does)
C1_AppendsAscendingOnePerDestination ==
    /\ \A i, j \in 1..Len(BatchWrites) :
          i < j => WordLess(BatchWrites[i].idx, BatchWrites[j].idx)
    /\ BatchWritten =>
          /\ {BatchWrites[i].idx : i \in 1..Len(BatchWrites)} = {DestOf(i) : i \in KeptSlots}
          /\ \A w \in 1..Len(BatchWrites) :
                LET mine == {i \in KeptSlots : DestOf(i) = BatchWrites[w].idx}
                IN /\ Len(BatchWrites[w].bytes) = 8 * Cardinality(mine)
                   /\ \A i \in mine :
                         Count(Records(BatchWrites[w].bytes), BytesOf(i))
                             = Cardinality({k \in mine : BytesOf(k) = BytesOf(i)})

\* C1 witness: a batch whose records went to two destinations has been written
C1_Witness ==
    /\ BatchWritten
    /\ Len(BatchWrites) = 2
    /\ Len(slots) = 2

\* C2: however the batch was divided among the workers and in whatever order
\* the partial maps were merged, the map collected has the keys of the
\* one-worker fold of the whole batch and, under each key, the same records
\* as often: whole 8-byte records, none lost, doubled or cut
C2_GroupingIndependentOfSplitAndMerge ==
    Grouped =>
        LET seq == FoldPiece(chtm[1], EmptyMap, slots)
        IN /\ DOMAIN result = DOMAIN seq
           /\ \A k \in DOMAIN result :
                 /\ Len(result[k]) = Len(seq[k])
                 /\ Len(result[k]) % 8 = 0
                 /\ \A i \in 1..Len(Records(seq[k])) :
                       Count(Records(result[k]), Records(seq[k])[i])
                           = Count(Records(seq[k]), Records(seq[k])[i])

\* C2 witness: a map collected in which a destination's records lie in
\* another order than the batch's, which only a merge of two workers' maps
\* in the reverse order gives
C2_Witness ==
    /\ Grouped
    /\ \E k \in DOMAIN result : result[k] # FoldPiece(chtm[1], EmptyMap, slots)[k]

\* C3: the records of a batch's map correspond one to one to the slots whose
\* lookup returned a taxon id other than 0: there are as many, a destination
\* holds as many as kept slots name it, and when the write loop has ended as
\* many 8-byte records have been appended
C3_OneRecordPerPositiveSlot ==
    Grouped =>
        /\ \A k \in DOMAIN result :
              Len(result[k]) = 8 * Cardinality({i \in KeptSlots : DestOf(i) = k})
        /\ \A i \in KeptSlots : DestOf(i) \in DOMAIN result
        /\ \A k \in DOMAIN result : result[k] # <<>>
        /\ BatchWritten => SumLen(BatchWrites) = 8 * Cardinality(KeptSlots)

\* C3 witness: a batch of two slots, one resolved to taxon id 7 and one not
\* present, has been written: one record
C3_Witness ==
    /\ BatchWritten
    /\ Len(slots) = 2
    /\ Cardinality(KeptSlots) = 1
    /\ \E i \in KeptSlots : get_from_page(chtm[1], slots[i]) = Word(7)
    /\ SumLen(BatchWrites) = 8

\* C4: a kept slot of value v and taxon id t is in the map under the
\* destination made of bits 32-63 of v masked by value_mask, as the 8 bytes
\* whose little-endian value is combined(left payload of v, t), and under
\* no other key: every key holds each 8-byte value exactly as often as kept
\* slots have that destination and that value
C4_RoutedByUpperBitsRepackedLittleEndian ==
    Grouped =>
        LET vb == get_value_bits(chtm[1])
            mask == get_value_mask(chtm[1])
            dest(i) == {b - 32 : b \in (slots[i].value \cap mask) \cap 32..63}
            word(i) == combined(AsU32(left(slots[i].value, vb)),
                                get_from_page(chtm[1], slots[i]), vb)
        IN /\ \A i \in KeptSlots :
                 /\ dest(i) \in DOMAIN result
                 /\ \E n \in 1..Len(Records(result[dest(i)])) :
                       from_le_bytes(Records(result[dest(i)])[n]) = word(i)
           /\ \A k \in DOMAIN result :
                 /\ Len(result[k]) % 8 = 0
                 /\ \A n \in 1..Len(Records(result[k])) :
                       Cardinality({m \in 1..Len(Records(result[k])) :
                                       Records(result[k])[m] = Records(result[k])[n]})
                         = Cardinality({i \in KeptSlots :
                                       /\ dest(i) = k
                                       /\ word(i) = from_le_bytes(Records(result[k])[n])})

\* C4 witness: a kept slot's record has been appended to its destination
C4_Witness ==
    /\ BatchWritten
    /\ \E i \in KeptSlots, w \in 1..Len(BatchWrites) :
          /\ BatchWrites[w].idx = Shr(slots[i].value \cap get_value_mask(chtm[1]), 32)
          /\ BatchWrites[w].bytes = BytesOf(i)
          /\ get_from_page(chtm[1], slots[i]) = Word(7)
          /\ slots[i].value = {61, 2}

\* the states in which process_chunk_file is at work on chunk chunk_i
InChunk == pc \in {"open", "header", "page", "read", "par", "fold", "write", "drain"}

\* the call of process_chunk_file for chunk chunk_i has ended
ChunkEnded == chunk_i >= 1 /\ Len(status) = chunk_i

\* bit b of the little-endian number held in bytes first..first+7 of the file
FileBit(first, b) == (file[first + (b \div 8)] \div (2 ^ (b % 8))) % 2 = 1

\* C5: a chunk whose body read failed with an I/O error ends in Error,
\* never in success
C5_ReadErrorEndsInError ==
    (ChunkEnded /\ io_log # <<>> /\ io_log[1].op = "read_err")
        => status[chunk_i] = "err"

\* C6: a failed flush, open or write of a shard is the last call made for
\* the chunk: the chunk ends in Error and the run with it, no destination
\* still waiting in file_indices is written, and nothing more is read
C6_ShardFailureReturnedAtOnce ==
    \A i \in 1..Len(io_log) :
        io_log[i].op \in {"flush_err", "open_err", "write_err"} =>
            /\ i = Len(io_log)
            /\ ChunkEnded
            /\ status[chunk_i] = "err"
            /\ pc = "exit_err"
            /\ ~ENABLED ReadBatch
            /\ ~ENABLED WriteToFile
            /\ io_log[1].op = "read" =>
                  /\ file_indices # <<>>
                  /\ \A k \in 1..Len(file_indices), w \in 1..Len(BatchWrites) :
                        BatchWrites[w].idx # file_indices[k]

\* C6 witness: the write of the first of two destinations failed and the
\* second is left unwritten
C6_Witness ==
    /\ pc = "exit_err"
    /\ io_log[Len(io_log)].op = "write_err"
    /\ Len(file_indices) = 2
    /\ BatchWrites = <<>>

\* C7: a chunk file shorter than 16 bytes ends the chunk in Error at the
\* header, no page loaded, no slot read, no shard opened or written; a header
\* that was read is the two little-endian u64 of the file's first 16 bytes,
\* and the body begins at byte 16
C7_HeaderSixteenBytesLittleEndian ==
    /\ pc \in {"page", "read", "par", "fold", "write", "drain"} =>
          /\ Len(file) >= 16
          /\ header # <<>>
    /\ (io_log # <<>> /\ io_log[1].op = "open_chunk" /\ Len(file) < 16 /\ pc # "header") =>
          /\ io_log = <<Event("open_chunk", {}, <<>>), Event("header_err", {}, <<>>)>>
          /\ ChunkEnded /\ status[chunk_i] = "err" /\ pc = "exit_err"
          /\ header = <<>> /\ chtm = <<>> /\ pos = 0
          /\ slots = <<>> /\ result = EmptyMap
          /\ writer = <<>> /\ last_file_index = <<>>
    /\ header # <<>> =>
          /\ Len(file) >= 16
          /\ \A b \in 0..63 :
                /\ b \in header[1].page_index <=> FileBit(1, b)
                /\ b \in header[1].page_size <=> FileBit(9, b)
          /\ pos >= 16
          /\ (io_log # <<>> /\ io_log[1].op = "open_chunk") => pos = 16
          /\ (io_log # <<>> /\ io_log[1].op = "read" /\ pc = "par") =>
                io_log[1].bytes = SubSeq(file, pos - Len(io_log[1].bytes) + 1, pos)

\* C7 witness: a chunk file of 15 bytes has ended its chunk at the header
C7_Witness ==
    /\ Len(file) = 15
    /\ pc = "exit_err"
    /\ io_log # <<>> /\ io_log[Len(io_log)].op = "header_err"

\* C8: the chunks are taken one at a time in order, chunk i + 1 only after
\* the i before it are Done; a chunk that does not end Done is the last one
\* and the run has failed; the run succeeds only with every chunk Done; and
\* nothing happens after the run has ended
C8_ChunksInOrderStopAtFirstFailure ==
    /\ Len(status) <= chunk_i /\ chunk_i <= chunk_files
    /\ InChunk => Len(status) = chunk_i - 1
    /\ pc = "loop" => Len(status) = chunk_i
    /\ \A k \in 1..Len(status) :
          status[k] # "done" =>
              /\ k = Len(status) /\ k = chunk_i
              /\ pc \in {"exit_err", "panic"}
    /\ pc \in {"exit_err", "panic"} => (ChunkEnded /\ status[chunk_i] # "done")
    /\ pc = "exit_ok" =>
          /\ Len(status) = chunk_files
          /\ \A k \in 1..chunk_files : status[k] = "done"
    /\ pc \in {"exit_ok", "exit_err", "panic"} => ~ENABLED Next

\* C8 witness: of two chunks the first ended in error and the run has
\* failed with the second never opened
C8_Witness ==
    /\ chunk_files = 2
    /\ status = <<"err">>
    /\ pc = "exit_err"

\* C9: the page of a chunk is the single-file page of file 0 when there is
\* one hash file, and with N >= 2 files and header index p < N the pair
\* (p, (p + 1) mod N); no page is loaded before the header is read, the page
\* is loaded once, and it is dropped before the next chunk
C9_PageOfPartitionAndSuccessor ==
    /\ [](/\ pc \in {"open", "header", "page"} => chtm = <<>>
          /\ pc \in {"read", "par", "fold", "write", "drain"} => chtm # <<>>
          /\ chtm # <<>> =>
                /\ hash_files >= 1
                /\ hash_files = 1 =>
                      /\ chtm[1].kind = "CHTable"
                      /\ chtm[1].files = <<0>>
                /\ hash_files >= 2 =>
                      /\ \A i \in 2..8 : file[i] = 0
                      /\ file[1] < hash_files
                      /\ chtm[1].kind = "CHPage"
                      /\ chtm[1].files =
                            <<file[1], IF file[1] = hash_files - 1 THEN 0 ELSE file[1] + 1>>)
    /\ [][chtm' # chtm =>
             \/ pc = "page" /\ chtm = <<>> /\ Len(chtm') = 1
             \/ pc = "loop" /\ chtm' = <<>> /\ chunk_i' = chunk_i + 1]_vars

\* C9 witness: with two partition files, the chunk of the last partition
\* has the page of files 1 and 0
C9_Witness ==
    /\ hash_files = 2
    /\ chtm # <<>>
    /\ file[1] = 1
    /\ chtm[1].files = <<1, 0>>
    /\ pc = "write"

\* C10: a chunk whose header names a partition that has no hash file (no
\* hash file at all, or an index that is not below the number of
\* partition files) ends in Error, an error value returned, with no slot
\* read and nothing written
C10_MissingPartitionEndsInError ==
    (/\ ChunkEnded
     /\ header # <<>>
     /\ \/ hash_files = 0
        \/ hash_files >= 2 /\ ~InBounds(header[1].page_index, hash_files))
        => /\ status[chunk_i] = "err"
           /\ slots = <<>>
           /\ writer = <<>>

\* s is a prefix of t
IsPrefix(s, t) == Len(s) <= Len(t) /\ SubSeq(t, 1, Len(s)) = s

\* the calls a step has added to io_log
NewEvents == SubSeq(io_log', Len(io_log) + 1, Len(io_log'))

\* C11: a call of write_to_file for the destination already open makes one
\* call, the write, on the handle it has (also when the handle was opened
\* for an earlier batch); a call for another destination, or with none open,
\* first flushes and releases the handle open before, then opens the shard,
\* which is created or kept with its content, then writes; and the step that
\* ends the stream flushes the handle still open
C11_ShardHandleLifecycle ==
    [][/\ pc = "write" =>
            LET fi == Head(file_indices)
                ev == NewEvents
                first_new == IF writer = <<>> THEN 1 ELSE 2
            IN IF last_file_index = <<fi>>
               THEN /\ Len(ev) = 1
                    /\ ev[1].op \in {"write", "write_err"} /\ ev[1].idx = fi
                    /\ pc' # "exit_err" => (writer' # <<>> /\ writer'[1].idx = fi)
               ELSE /\ writer # <<>> =>
                          /\ ev[1].op \in {"flush", "flush_err"}
                          /\ ev[1].idx = writer[1].idx /\ ev[1].bytes = writer[1].buf
                          /\ ev[1].op = "flush" =>
                                IsPrefix(shards[writer[1].idx] \o writer[1].buf,
                                         shards'[writer[1].idx])
                    /\ \A k \in 1..Len(ev) :
                          /\ ev[k].op \in {"open", "open_err"} => (k = first_new /\ ev[k].idx = fi)
                          /\ ev[k].op \in {"flush", "flush_err"} => k < first_new
                          /\ ev[k].op \in {"write", "write_err"} =>
                                (k = first_new + 1 /\ ev[k].idx = fi /\ ev[k - 1].op = "open")
                    /\ pc' # "exit_err" =>
                          /\ Len(ev) = first_new + 1
                          /\ writer' # <<>> /\ writer'[1].idx = fi
                    /\ (Len(ev) >= first_new /\ ev[first_new].op = "open") =>
                          /\ fi \in DOMAIN shards'
                          /\ fi \in DOMAIN shards => IsPrefix(shards[fi], shards'[fi])
       /\ pc = "drain" =>
            /\ writer' = <<>>
            /\ writer = <<>> => io_log' = io_log
            /\ writer # <<>> =>
                  /\ Len(NewEvents) = 1
                  /\ NewEvents[1].op \in {"flush", "flush_err"}
                  /\ NewEvents[1].idx = writer[1].idx
                  /\ NewEvents[1].op = "flush" =>
                        shards'[writer[1].idx] = shards[writer[1].idx] \o writer[1].buf
      ]_vars

\* C11 witness: a batch has written to the shard an earlier batch left open,
\* with no open and no flush of its own
C11_Witness ==
    /\ pc = "read"
    /\ Len(io_log) = 2
    /\ io_log[1].op = "read" /\ io_log[2].op = "write"
    /\ last_file_index = <<io_log[2].idx>>
    /\ writer # <<>>

\* C13: every read of the body begins on a record boundary, the slots of the
\* batch are the whole records the read covers, and bytes are dropped only
\* where the stream ends
C13_RecordsFramedAtTheirOffsets ==
    (pc = "par" /\ io_log # <<>> /\ io_log[1].op = "read") =>
        LET n == Len(io_log[1].bytes)
            start == pos - n
        IN /\ (start - 16) % slot_size = 0
           /\ n % slot_size # 0 => pos = Len(file)
           /\ Len(slots) = n \div slot_size
           /\ \A i \in 1..Len(slots) :
                 SlotBytes(slots[i])
                     = SubSeq(file, start + slot_size * (i - 1) + 1, start + slot_size * i)

\* C14: no step takes a shard file away or changes bytes it holds: what a
\* shard held before a step is a prefix of what it holds after, also in the
\* step that ends a chunk in error
C14_ShardsAppendOnly ==
    [][\A d \in DOMAIN shards :
          /\ d \in DOMAIN shards'
          /\ IsPrefix(shards[d], shards'[d])]_vars

\* C14 witness: a chunk has been ended by a failed open of its second
\* destination and the record appended for the first is in its shard
C14_Witness ==
    /\ pc = "exit_err"
    /\ io_log[Len(io_log)].op = "open_err"
    /\ BatchWrites # <<>>
    /\ \E d \in DOMAIN shards :
          /\ d = BatchWrites[1].idx
          /\ Len(shards[d]) >= 8
          /\ IsPrefix(BatchWrites[1].bytes, shards[d])

\* C17: while workers hold pieces of a batch nothing of that batch has been
\* written and no step touches a shard, a handle or the reader; the appends
\* of a batch begin when the workers' maps have been merged into one and
\* collected, each step of the coordinating thread makes the calls for one
\* destination, and the next read begins when none is left to write
C17_WritesAfterTheParallelWork ==
    /\ [](/\ pc \in {"par", "fold"} =>
                /\ file_indices = <<>>
                /\ io_log # <<>> /\ io_log[1].op = "read" /\ Len(io_log) = 1
          /\ pc \in {"write", "read", "drain"} => parts = <<>>
          /\ pc = "write" => file_indices # <<>>
          /\ pc \in {"read", "drain"} => file_indices = <<>>)
    /\ [][/\ (pc \in {"par", "fold"} \/ parts # <<>> \/ parts' # <<>>) =>
                UNCHANGED <<writer_vars, io_log, pos>>
          /\ shards' # shards => pc \in {"write", "drain"}
          /\ (writer' # writer /\ pc # "loop") => pc \in {"write", "drain"}
          /\ pc = "write" =>
                /\ \A k \in 1..Len(NewEvents) :
                      NewEvents[k].op \in {"open", "open_err", "write", "write_err"}
                          => NewEvents[k].idx = Head(file_indices)
                /\ file_indices' \in {file_indices, Tail(file_indices)}
          /\ (pc = "read" /\ pc' = "par") => file_indices = <<>>]_vars

\* C17 witness: the first of a batch's two groups has been appended and the
\* second waits, no worker holding anything
C17_Witness ==
    /\ pc = "write"
    /\ Len(BatchWrites) = 1
    /\ Len(file_indices) = 1
    /\ Len(slots) = 2
    /\ parts = <<>>

\* C18: while process_batch runs, a handle is open exactly when
\* last_file_index is set and it is the handle of that shard; and a call of
\* write_to_file that returns success has made the write on shard
\* file_index, whose content and buffered bytes are those of before followed
\* by the bytes given
C18_WriterIsTheShardLastNamed ==
    /\ [](pc \in {"read", "par", "fold", "write", "drain"} =>
              /\ Len(writer) <= 1 /\ Len(last_file_index) <= 1
              /\ writer = <<>> <=> last_file_index = <<>>
              /\ writer # <<>> => writer[1].idx = last_file_index[1])
    /\ [][(pc = "write" /\ pc' # "exit_err") =>
              LET fi == Head(file_indices)
                  before == (IF fi \in DOMAIN shards THEN shards[fi] ELSE <<>>)
                            \o (IF writer # <<>> /\ writer[1].idx = fi
                                THEN writer[1].buf ELSE <<>>)
              IN /\ NewEvents # <<>>
                 /\ NewEvents[Len(NewEvents)]
                        = Event("write", fi, result[fi])
                 /\ last_file_index' = <<fi>>
                 /\ writer' # <<>> /\ writer'[1].idx = fi
                 /\ fi \in DOMAIN shards'
                 /\ shards'[fi] \o writer'[1].buf = before \o result[fi]]_vars

\* C18 witness: a write has returned success and its bytes lie in the buffer
\* of the handle last_file_index names
C18_Witness ==
    /\ pc \in {"write", "read"}
    /\ io_log # <<>> /\ io_log[Len(io_log)].op = "write"
    /\ writer # <<>> /\ last_file_index = <<writer[1].idx>>
    /\ writer[1].buf = io_log[Len(io_log)].bytes
    /\ writer[1].buf # <<>>

\* C19: the stream of a chunk ends where the file ends, wherever the count
\* the header declares would end it: the slots read beyond the declared
\* records are looked up and grouped like the others, and a chunk
\* ends in error only after a call that failed, never for a body shorter or
\* longer than declared
C19_DeclaredCountDoesNotBoundTheStream ==
    /\ (pc = "drain" /\ io_log # <<>> /\ io_log[1].op = "eof" /\ batch_size >= 1)
          => pos = Len(file)
    /\ (Grouped /\ pos - 16 > slot_size * Nat31(header[1].page_size)) =>
          /\ Len(slots) = Len(io_log[1].bytes) \div slot_size
          /\ \A i \in KeptSlots :
                /\ DestOf(i) \in DOMAIN result
                /\ \E n \in 1..Len(Records(result[DestOf(i)])) :
                      Records(result[DestOf(i)])[n] = BytesOf(i)
    /\ (ChunkEnded /\ status[chunk_i] = "err") =>
          /\ io_log # <<>>
          /\ io_log[Len(io_log)].op \in
                {"open_chunk_err", "header_err", "config_err", "load_err",
                 "flush_err", "open_err", "write_err"}

\* C19 witness: a chunk that declares one record and holds two has been
\* streamed to its end and both records written
C19_Witness ==
    /\ pc = "drain"
    /\ io_log # <<>> /\ io_log[1].op = "eof"
    /\ header # <<>> /\ header[1].page_size = Word(1)
    /\ Len(file) = 16 + 2 * slot_size
    /\ pos = Len(file)
    /\ chunk_i = 1
    /\ \E d \in DOMAIN shards :
          Len(shards[d]) + (IF writer # <<>> /\ writer[1].idx = d THEN Len(writer[1].buf) ELSE 0)
              = 16

\* the steps process_chunk_file and process_batch can take from one place
\* to the next
Order ==
    {<<"loop", "open">>, <<"loop", "exit_ok">>,
     <<"open", "header">>, <<"open", "exit_err">>,
     <<"header", "page">>, <<"header", "exit_err">>,
     <<"page", "read">>, <<"page", "exit_err">>, <<"page", "panic">>,
     <<"read", "par">>, <<"read", "drain">>,
     <<"par", "fold">>, <<"fold", "fold">>, <<"fold", "write">>, <<"fold", "read">>,
     <<"write", "write">>, <<"write", "read">>, <<"write", "exit_err">>,
     <<"drain", "loop">>, <<"drain", "exit_err">>}

\* C16: a chunk goes from Idle (open) to HeaderRead (page) to PageLoaded and
\* Streaming (read, par, fold, write) to Draining (drain) to Done, no place
\* skipped: the header is read before a page is loaded, the page is loaded
\* before the first read of the body, Done follows the flush of the handle
\* still open with no write after it, and nothing is written between chunks;
\* and a chunk that has been begun comes to its end, Done or a failed end
\* (an error returned, or the process ended by a panic)
C16_ChunkStatesInOrderToAnEnd ==
    /\ [](/\ pc \in {"open", "header"} => (header = <<>> /\ chtm = <<>> /\ pos = 0)
          /\ pc = "page" =>
                /\ header # <<>> /\ chtm = <<>> /\ pos = 16
                /\ io_log # <<>> /\ io_log[Len(io_log)].op = "header"
          /\ pc \in {"read", "par", "fold", "write", "drain"} =>
                (header # <<>> /\ chtm # <<>> /\ pos >= 16)
          /\ (ChunkEnded /\ status[chunk_i] = "done") =>
                /\ header # <<>> /\ chtm # <<>>
                /\ writer = <<>> /\ file_indices = <<>> /\ parts = <<>>
                /\ io_log # <<>> /\ io_log[1].op \in {"eof", "read_err"}
                /\ \A k \in 2..Len(io_log) :
                      /\ k = 2
                      /\ io_log[k].op = "flush"
                      /\ last_file_index = <<io_log[k].idx>>
                /\ last_file_index # <<>> => Len(io_log) = 2)
    /\ [][/\ pc' # pc => <<pc, pc'>> \in Order
          /\ pc \notin {"write", "drain"} => shards' = shards
          /\ ~InChunk => UNCHANGED <<shards, pos, chtm>> \/ pc' = "open"]_vars
    /\ InChunk ~> (ChunkEnded /\ status[chunk_i] \in {"done", "err", "panic"})

\* C16 witness: a chunk is Done after a batch was written and the handle
\* flushed
C16_Witness ==
    /\ ChunkEnded /\ status[chunk_i] = "done"
    /\ Len(io_log) = 2 /\ io_log[1].op = "eof" /\ io_log[2].op = "flush"
    /\ io_log[2].bytes # <<>>
    /\ batch_size >= 1

\* ------------------------------------------------ C12, C20: whole chunks
\* the whole records of the body of chunk file f, in the file's order
AllSlots(f) == DecodeSlots(SubSeq(f, 17, Len(f)), BodyRecords(f))

\* what the records of chunk file f come to, shard by shard, when they are
\* looked up in `page` and grouped in the file's order
ChunkShards(page, f) == FoldPiece(page, EmptyMap, AllSlots(f))

\* s, k times over
RECURSIVE Times(_, _)
Times(s, k) == IF k = 0 THEN <<>> ELSE s \o Times(s, k - 1)

\* main is between two chunks or has returned, every chunk so far having
\* ended in success
BetweenChunks ==
    /\ pc \in {"loop", "exit_ok"}
    /\ chunk_i >= 1
    /\ Len(status) = chunk_i
    /\ \A k \in 1..chunk_i : status[k] = "done"

\* C12: when the same chunk file is processed again against the same page
\* and the same shard directory, every shard holds what it held after the
\* first run followed by the same bytes once more: after k runs it is the
\* first run's content k times over, nothing left out and nothing
\* overwritten.
C12_SameChunkAgainAppendsTheSameBytes ==
    (BetweenChunks /\ batch_size >= 1) =>
        LET once == ChunkShards(chtm[1], given[1])
        IN /\ DOMAIN shards = DOMAIN once
           /\ \A d \in DOMAIN once : shards[d] = Times(once[d], chunk_i)

\* C12 witness: a chunk file of two different records for one shard has
\* been processed twice and the shard holds the two records twice
C12_Witness ==
    /\ BetweenChunks /\ chunk_i = 2 /\ batch_size >= 1
    /\ \E d \in DOMAIN shards :
          /\ Len(shards[d]) = 32
          /\ SubSeq(shards[d], 1, 8) # SubSeq(shards[d], 9, 16)
          /\ SubSeq(shards[d], 17, 32) = SubSeq(shards[d], 1, 16)

\* C20: whatever batch_size >= 1 is, a chunk appends to each shard the same
\* records the same number of times, those of the chunk's slots that the
\* page resolves, and a batch never holds more than batch_size slots; when
\* batch_size = 0 the first read is the end of the stream, and the chunk
\* ends in success with no slot looked up and no shard written.
C20_BatchSizeSplitsButDoesNotChoose ==
    /\ (ChunkEnded /\ chunk_i = 1 /\ status[1] = "done" /\ batch_size >= 1) =>
          LET once == ChunkShards(chtm[1], given[1])
          IN /\ DOMAIN shards = DOMAIN once
             /\ \A d \in DOMAIN once :
                   \A r \in {Records(once[d])[i] : i \in DOMAIN Records(once[d])}
                           \cup {Records(shards[d])[i] : i \in DOMAIN Records(shards[d])} :
                       Count(Records(shards[d]), r) = Count(Records(once[d]), r)
    /\ pc \in {"par", "fold", "write"} => (batch_size >= 1 /\ Len(slots) <= batch_size)
    /\ batch_size = 0 =>
          /\ slots = <<>> /\ shards = EmptyMap /\ writer = <<>>
          /\ pos \in {0, 16}
          /\ pc = "drain" => io_log = <<Event("eof", {}, <<>>)>>
          /\ (ChunkEnded /\ header # <<>> /\ chtm # <<>>) =>
                (status[chunk_i] = "done" /\ pos = 16
                 /\ io_log = <<Event("eof", {}, <<>>)>>)

\* C20 witness: with batch_size = 1 a chunk of two records for one shard
\* has ended, the shard written in two batches
C20_Witness ==
    /\ ChunkEnded /\ chunk_i = 1 /\ status[1] = "done"
    /\ batch_size = 1
    /\ Len(given[1]) >= 16 + 2 * slot_size
    /\ \E d \in DOMAIN shards : Len(shards[d]) = 16

\* ------------------------------------------------------- C15: the repack
\* C15: for every left payload and taxon id that fit their subfields under
\* a value_bits, the value the repack step writes gives back the taxon id
\* when its taxon-id subfield is taken out and the left payload, unchanged,
\* when its left subfield is taken out; the value is a 32-bit one, written
\* as eight little-endian bytes.
C15_RepackRoundTrip ==
    /\ pc \in {"packed", "unpacked"} =>
          /\ Len(packed[1].value_bytes) = 8
          /\ \A i \in 5..8 : packed[1].value_bytes[i] = 0
    /\ pc = "unpacked" =>
          /\ packed[1].out[1].taxid = packed[1].taxid
          /\ packed[1].out[1].left = left(packed[1].slot.value, packed[1].value_bits)

\* C15 witness: a left payload and a taxon id that fill the two ends of
\* their subfields, repacked under 8 value bits over a slot whose own
\* taxon-id subfield was not empty, have been taken out again
C15_Witness ==
    /\ pc = "unpacked"
    /\ packed[1].value_bits = 8
    /\ packed[1].taxid = {0, 7}
    /\ packed[1].slot.value = {0, 23, 63}
    /\ packed[1].out[1].taxid = {0, 7}
    /\ packed[1].out[1].left = {0, 23}

====
